---- MODULE Spec2Model ----
(* ModPocket backend: share-URL decoding (parse_nusmods_url), catalog        *)
(* resolution (fetch_module_data, enrich_schedule_with_api_data) and the     *)
(* request handler generate_wallpaper with its image-generation call.        *)
(* Python str values are sequences of one-character strings.                 *)
EXTENDS Integers, Sequences, FiniteSets, TLC

\* ---------------------------------------------------------------------------
\* Python str primitives used by the source
\* ---------------------------------------------------------------------------

\* evaluate e once and name its value in F (call-by-value, as in Python)
Bind(e, F(_)) == CHOOSE r \in {F(v) : v \in {e}} : TRUE

\* a str literal as a sequence of characters
Chars(s) == [i \in 1..Len(s) |-> SubSeq(s, i, i)]

MinOf(S) == CHOOSE x \in S : \A y \in S : x <= y

MaxOf(S) == CHOOSE x \in S : \A y \in S : y <= x

\* s[i:] (1-based i)
From(s, i) == SubSeq(s, i, Len(s))

StartsWithAt(s, sub, i) ==
    /\ i + Len(sub) - 1 <= Len(s)
    /\ SubSeq(s, i, i + Len(sub) - 1) = sub

\* `sub in s`
Contains(s0, sub0) ==
    \E s \in {s0} : \E sub \in {sub0} :
        \E i \in 1..(Len(s) + 1) : StartsWithAt(s, sub, i)

\* index of the first occurrence of character c in s, 0 when absent
IndexOf(s0, c) ==
    Bind(s0, LAMBDA s :
    Bind({i \in 1..Len(s) : s[i] = c}, LAMBDA hits :
        IF hits = {} THEN 0 ELSE MinOf(hits)))

\* s.split(c) for a one-character separator c
RECURSIVE Split(_, _)
Split(s0, c) ==
    Bind(s0, LAMBDA s :
    Bind(IndexOf(s, c), LAMBDA i :
        IF i = 0 THEN <<s>>
        ELSE <<SubSeq(s, 1, i - 1)>> \o Split(From(s, i + 1), c)))

\* s.split(c, 1)
Split1(s0, c) ==
    Bind(s0, LAMBDA s :
    Bind(IndexOf(s, c), LAMBDA i :
        IF i = 0 THEN <<s>> ELSE <<SubSeq(s, 1, i - 1), From(s, i + 1)>>))

\* s.strip(cs): drop leading and trailing characters that are in cs
StripSet(s0, cs) ==
    Bind(s0, LAMBDA s :
    Bind({i \in 1..Len(s) : s[i] \notin cs}, LAMBDA keep :
        IF keep = {} THEN <<>> ELSE SubSeq(s, MinOf(keep), MaxOf(keep))))

Whitespace == {" ", "\t", "\n", "\r"}

\* s.strip()
Strip(s) == StripSet(s, Whitespace)

LowerAlpha == Chars("abcdefghijklmnopqrstuvwxyz")

UpperAlpha == Chars("ABCDEFGHIJKLMNOPQRSTUVWXYZ")

UpperChar(c) ==
    IF \E i \in 1..26 : LowerAlpha[i] = c
    THEN UpperAlpha[CHOOSE i \in 1..26 : LowerAlpha[i] = c]
    ELSE c

\* s.upper()
Upper(s0) == Bind(s0, LAMBDA s : [i \in 1..Len(s) |-> UpperChar(s[i])])

DigitChars == Chars("0123456789")

IsDigit(c) == \E i \in 1..10 : DigitChars[i] = c

DigitVal(c) == (CHOOSE i \in 1..10 : DigitChars[i] = c) - 1

\* value of a run of decimal digits
RECURSIVE DigitsVal(_)
DigitsVal(ds0) ==
    Bind(ds0, LAMBDA ds :
        IF Len(ds) = 0 THEN 0
        ELSE 10 * DigitsVal(SubSeq(ds, 1, Len(ds) - 1)) + DigitVal(ds[Len(ds)]))

\* int(s) succeeds: optional sign followed by one or more digits
CanInt(s0) ==
    \E s \in {s0} :
    \E body \in {IF Len(s) > 0 /\ s[1] \in {"+", "-"} THEN Tail(s) ELSE s} :
        Len(body) > 0 /\ \A i \in 1..Len(body) : IsDigit(body[i])

\* int(s) where CanInt(s)
ToInt(s0) ==
    Bind(s0, LAMBDA s :
        IF s[1] = "-" THEN 0 - DigitsVal(Tail(s))
        ELSE IF s[1] = "+" THEN DigitsVal(Tail(s))
        ELSE DigitsVal(s))

\* ---------------------------------------------------------------------------
\* dict with insertion order: a sequence of [key, val] entries, keys unique
\* ---------------------------------------------------------------------------

DictHas(d0, k0) ==
    \E d \in {d0} : \E k \in {k0} : \E i \in 1..Len(d) : d[i].key = k

DictGet(d0, k0) ==
    Bind(d0, LAMBDA d : Bind(k0, LAMBDA k :
        d[CHOOSE i \in 1..Len(d) : d[i].key = k].val))

\* d[k] = v : an existing key keeps its position
DictPut(d0, k0, v0) ==
    Bind(d0, LAMBDA d : Bind(k0, LAMBDA k : Bind(v0, LAMBDA v :
        IF DictHas(d, k)
        THEN [i \in 1..Len(d) |-> IF d[i].key = k THEN [key |-> k, val |-> v] ELSE d[i]]
        ELSE Append(d, [key |-> k, val |-> v]))))

DictKeys(d0) == Bind(d0, LAMBDA d : [i \in 1..Len(d) |-> d[i].key])

\* ---------------------------------------------------------------------------
\* urllib.parse as used by parse_nusmods_url
\* ---------------------------------------------------------------------------

\* the part of a URL after its scheme ("https:"), the URL itself without one
AfterScheme(url0) ==
    Bind(url0, LAMBDA u :
    Bind(IndexOf(u, ":"), LAMBDA i :
        IF i > 1 /\ \A k \in 1..(i - 1) :
                       \E j \in 1..26 : u[k] \in {LowerAlpha[j], UpperAlpha[j]}
        THEN From(u, i + 1)
        ELSE u))

\* netloc and the remainder: netloc follows "//" and ends before the first
\* of / ? # ; without "//" it is empty
SplitNetloc(rest0) ==
    Bind(rest0, LAMBDA rest :
        IF ~(Len(rest) >= 2 /\ rest[1] = "/" /\ rest[2] = "/")
        THEN [netloc |-> <<>>, rest |-> rest]
        ELSE Bind(From(rest, 3), LAMBDA after :
             Bind({k \in 1..Len(after) : after[k] \in {"/", "?", "#"}}, LAMBDA delims :
             Bind(IF delims = {} THEN Len(after) + 1 ELSE MinOf(delims), LAMBDA nEnd :
                 [netloc |-> SubSeq(after, 1, nEnd - 1), rest |-> From(after, nEnd)]))))

\* urlparse(url): scheme, netloc, then path, query (after ?), fragment (after #)
urlparse(url0) ==
    Bind(SplitNetloc(AfterScheme(url0)), LAMBDA n :
    Bind(Split1(n.rest, "#")[1], LAMBDA r :
    Bind(Split1(r, "?"), LAMBDA pq :
        [netloc |-> n.netloc,
         path   |-> pq[1],
         query  |-> IF Len(pq) = 1 THEN <<>> ELSE pq[2]])))

\* parse_qs(query): fields split on "&", each split at its first "="; a field
\* without "=" or with an empty value is dropped; values of a repeated name
\* are collected in order under the name's first position.
\* (The inputs of this model carry no % escapes and no "+".)
RECURSIVE parse_qs_fields(_, _)
parse_qs_fields(fields0, acc0) ==
    Bind(fields0, LAMBDA fields : Bind(acc0, LAMBDA acc :
        IF Len(fields) = 0 THEN acc
        ELSE Bind(Split1(Head(fields), "="), LAMBDA nv :
             IF Len(nv) # 2 \/ Len(nv[2]) = 0
             THEN parse_qs_fields(Tail(fields), acc)
             ELSE parse_qs_fields(Tail(fields),
                    DictPut(acc, nv[1],
                        IF DictHas(acc, nv[1])
                        THEN Append(DictGet(acc, nv[1]), nv[2])
                        ELSE <<nv[2]>>)))))

parse_qs(query) == parse_qs_fields(Split(query, "&"), <<>>)

\* ---------------------------------------------------------------------------
\* parse_nusmods_url
\* ---------------------------------------------------------------------------

ERR_DOMAIN == "Invalid URL: must be a nusmods.com URL"

ERR_NO_SEMESTER == "Invalid URL: could not find semester in path"

ERR_SEMESTER_NUMBER == "Invalid URL: could not parse semester number"

\* raise ValueError(msg)
RaiseValueError(msg) == [ok |-> FALSE, error |-> msg, semester |-> -1, modules |-> <<>>]

\* "nusmods.com" in parsed.netloc
DomainAccepted(netloc) == Contains(netloc, Chars("nusmods.com"))

\* variant: the path is split without stripping its slashes
PathPartsNoStrip(path) == Split(path, "/")

\* parsed.path.strip("/").split("/")
PathParts(path) == Split(StripSet(path, {"/"}), "/")

\* len(path_parts) >= 2 and "sem-" in path_parts[1]   (0-based index 1)
HasSemesterSegment(path_parts0) ==
    \E path_parts \in {path_parts0} :
        Len(path_parts) >= 2 /\ Contains(path_parts[2], Chars("sem-"))

\* re.search(r"sem-(\d+)", seg).group(1): the digits after the first "sem-"
\* that is followed by a digit, taken greedily; <<>> when there is no match
SemesterMatch(seg0) ==
    Bind(seg0, LAMBDA seg :
    Bind({i \in 1..Len(seg) :
            /\ StartsWithAt(seg, Chars("sem-"), i)
            /\ i + 4 <= Len(seg)
            /\ IsDigit(seg[i + 4])}, LAMBDA hits :
        IF hits = {} THEN <<>>
        ELSE Bind(MinOf(hits), LAMBDA i :
             SubSeq(seg, i + 4,
                    MaxOf({j \in (i + 4)..Len(seg) :
                             \A k \in (i + 4)..j : IsDigit(seg[k])})))))

\* for num in class_no_str.split(","): num = num.strip(); if num: append
RECURSIVE ClassNumbers(_)
ClassNumbers(parts0) ==
    Bind(parts0, LAMBDA parts :
        IF Len(parts) = 0 THEN <<>>
        ELSE Bind(Strip(Head(parts)), LAMBDA num :
             (IF Len(num) > 0 THEN <<num>> ELSE <<>>) \o ClassNumbers(Tail(parts))))

\* lesson_str.split(";") if ";" in lesson_str else lesson_str.split(",")
SplitLessons(lesson_str0) ==
    Bind(lesson_str0, LAMBDA lesson_str :
        IF Contains(lesson_str, <<";">>)
        THEN Split(lesson_str, ";")
        ELSE Split(lesson_str, ","))

\* the loop over the lesson tokens of one module value, filling lesson_dict
RECURSIVE LessonDict(_, _)
LessonDict(lessons0, lesson_dict0) ==
    Bind(lessons0, LAMBDA lessons : Bind(lesson_dict0, LAMBDA lesson_dict :
        IF Len(lessons) = 0 THEN lesson_dict
        ELSE IF ~Contains(Head(lessons), <<":">>)
             THEN LessonDict(Tail(lessons), lesson_dict)
             ELSE Bind(Split1(Head(lessons), ":"), LAMBDA parts :
                  Bind(ClassNumbers(Split(StripSet(parts[2], {"(", ")"}), ",")),
                       LAMBDA class_numbers :
                      IF Len(class_numbers) > 0
                      THEN LessonDict(Tail(lessons),
                              DictPut(lesson_dict, Strip(Upper(parts[1])), class_numbers))
                      ELSE LessonDict(Tail(lessons), lesson_dict)))))

\* the loop over query.items(), filling modules
RECURSIVE ModulesOf(_, _)
ModulesOf(items0, modules0) ==
    Bind(items0, LAMBDA items : Bind(modules0, LAMBDA modules :
        IF Len(items) = 0 THEN modules
        ELSE IF Len(Head(items).val) = 0 \/ Len(Head(items).val[1]) = 0
             THEN ModulesOf(Tail(items), modules)
             ELSE Bind(LessonDict(SplitLessons(Head(items).val[1]), <<>>),
                       LAMBDA lesson_dict :
                      IF Len(lesson_dict) > 0
                      THEN ModulesOf(Tail(items),
                              DictPut(modules, Upper(Head(items).key), lesson_dict))
                      ELSE ModulesOf(Tail(items), modules))))

parse_nusmods_url(u) ==
    Bind(urlparse(u), LAMBDA p :
    Bind(PathParts(p.path), LAMBDA path_parts :
        IF ~DomainAccepted(p.netloc) THEN RaiseValueError(ERR_DOMAIN)
        ELSE IF ~HasSemesterSegment(path_parts) THEN RaiseValueError(ERR_NO_SEMESTER)
        ELSE Bind(SemesterMatch(path_parts[2]), LAMBDA semester_match :
             IF Len(semester_match) = 0
             THEN RaiseValueError(ERR_SEMESTER_NUMBER)
             ELSE [ok       |-> TRUE,
                   error    |-> "",
                   semester |-> DigitsVal(semester_match),
                   modules  |-> ModulesOf(parse_qs(p.query), <<>>)])))

\* ---------------------------------------------------------------------------
\* Catalog resolution: fetch_module_data and enrich_schedule_with_api_data
\* ---------------------------------------------------------------------------

LESSON_TYPE_MAPPING ==
    << [key |-> Chars("LEC"),        val |-> Chars("Lecture")],
       [key |-> Chars("TUT"),        val |-> Chars("Tutorial")],
       [key |-> Chars("LAB"),        val |-> Chars("Laboratory")],
       [key |-> Chars("SEC"),        val |-> Chars("Sectional Teaching")],
       [key |-> Chars("REC"),        val |-> Chars("Recitation")],
       [key |-> Chars("SEM"),        val |-> Chars("Seminar-Style Module Class")],
       [key |-> Chars("PLE"),        val |-> Chars("Plenary")],
       [key |-> Chars("WS"),         val |-> Chars("Workshop")],
       [key |-> Chars("DOM"),        val |-> Chars("Design Lecture")],
       [key |-> Chars("MCT"),        val |-> Chars("Mini-Project")],
       [key |-> Chars("LECTURE"),    val |-> Chars("Lecture")],
       [key |-> Chars("TUTORIAL"),   val |-> Chars("Tutorial")],
       [key |-> Chars("LABORATORY"), val |-> Chars("Laboratory")] >>

\* LESSON_TYPE_MAPPING.get(url_lesson_type.upper(), url_lesson_type)
ApiLessonType(url_lesson_type0) ==
    Bind(url_lesson_type0, LAMBDA url_lesson_type :
    Bind(Upper(url_lesson_type), LAMBDA code :
        IF DictHas(LESSON_TYPE_MAPPING, code)
        THEN DictGet(LESSON_TYPE_MAPPING, code)
        ELSE url_lesson_type))

\* a key that a JSON object does not carry
Missing == <<"(missing)">>

TBA == Chars("TBA")

\* obj.get(key, default)
GetOr(v0, default) == Bind(v0, LAMBDA v : IF v = Missing THEN default ELSE v)

\* str(n) of a non-negative int
RECURSIVE Str(_)
Str(n0) ==
    Bind(n0, LAMBDA n :
        IF n < 10 THEN <<DigitChars[n + 1]>>
        ELSE Str(n \div 10) \o <<DigitChars[(n % 10) + 1]>>)

\* variant: the academic year rolls over in July
get_current_academic_year_from_july(now) ==
    IF now.month >= 7
    THEN Str(now.year) \o Chars("-") \o Str(now.year + 1)
    ELSE Str(now.year - 1) \o Chars("-") \o Str(now.year)

\* get_current_academic_year, for datetime.now() = now: the academic year
\* starts in August
get_current_academic_year(now) ==
    IF now.month >= 8
    THEN Str(now.year) \o Chars("-") \o Str(now.year + 1)
    ELSE Str(now.year - 1) \o Chars("-") \o Str(now.year)

\* variant: the term-scoped endpoint
ModuleUrlTermScoped(module_code, academic_year, semester) ==
    Chars("https://api.nusmods.com/v2/") \o academic_year \o Chars("/semesters/")
    \o Str(semester) \o Chars("/modules/") \o module_code \o Chars(".json")

\* the URL fetch_module_data requests: the general module endpoint; the
\* semester argument is not part of it
ModuleUrl(module_code, academic_year, semester) ==
    Chars("https://api.nusmods.com/v2/") \o academic_year \o Chars("/modules/")
    \o module_code \o Chars(".json")

\* fetch_module_data returns None for a timeout, a connection error or a
\* non-2xx status (raise_for_status), the JSON body otherwise
None == [none |-> TRUE, hasSemesterData |-> FALSE, semesterData |-> <<>>]

fetch_module_data(response) ==
    IF response.kind = "ok" THEN response.body ELSE None

\* variant: the first record, whatever its semester
FindSemesterFirst(module_data0, semester) ==
    Bind(module_data0, LAMBDA module_data :
    Bind(IF module_data.hasSemesterData THEN module_data.semesterData ELSE <<>>,
         LAMBDA all_semesters :
        IF Len(all_semesters) = 0 THEN [found |-> FALSE, timetable |-> <<>>]
        ELSE [found |-> TRUE, timetable |-> all_semesters[1].timetable]))

\* the loop over all_semesters: the first record of the requested semester
FindSemester(module_data0, semester) ==
    Bind(module_data0, LAMBDA module_data :
    Bind(IF module_data.hasSemesterData THEN module_data.semesterData ELSE <<>>,
         LAMBDA all_semesters :
    Bind({i \in 1..Len(all_semesters) : all_semesters[i].semester = semester},
         LAMBDA hits :
        IF hits = {} THEN [found |-> FALSE, timetable |-> <<>>]
        ELSE [found |-> TRUE, timetable |-> all_semesters[MinOf(hits)].timetable])))

\* str(lesson.get("classNo", "")).strip()
CurrentClassNo(lesson) == Strip(GetOr(lesson.classNo, <<>>))

\* variant: class numbers compared as strings only
ClassNoMatchExact(current_class_no, class_no_target_str) ==
    current_class_no = class_no_target_str

\* is_match: equal strings, else int(...) == int(...) unless int raises
ClassNoMatch(current_class_no0, class_no_target_str0) ==
    \E current_class_no \in {current_class_no0} :
    \E class_no_target_str \in {class_no_target_str0} :
        IF current_class_no = class_no_target_str THEN TRUE
        ELSE IF ~CanInt(current_class_no) \/ ~CanInt(class_no_target_str) THEN FALSE
        ELSE ToInt(current_class_no) = ToInt(class_no_target_str)

\* variant: the scan stops at the first matching row
MatchingRowsFirstOnly(timetable, i, api_lesson_type, class_no_target_str) ==
    LET hits == {r \in i..Len(timetable) :
                    /\ timetable[r].lessonType = api_lesson_type
                    /\ ClassNoMatch(CurrentClassNo(timetable[r]), class_no_target_str)}
    IN  IF hits = {} THEN <<>> ELSE <<MinOf(hits)>>

\* `for lesson in timetable` for one class_no_target, from row i on: the
\* positions of the rows that are appended, in timetable order (no break)
RECURSIVE MatchingRows(_, _, _, _)
MatchingRows(timetable0, i0, api_lesson_type0, class_no_target_str0) ==
    Bind(timetable0, LAMBDA timetable : Bind(i0, LAMBDA i :
    Bind(api_lesson_type0, LAMBDA api_lesson_type :
    Bind(class_no_target_str0, LAMBDA class_no_target_str :
        IF i > Len(timetable) THEN <<>>
        ELSE (IF /\ timetable[i].lessonType = api_lesson_type
                 /\ ClassNoMatch(CurrentClassNo(timetable[i]), class_no_target_str)
              THEN <<i>> ELSE <<>>)
             \o MatchingRows(timetable, i + 1, api_lesson_type, class_no_target_str)))))

\* `for class_no_target in class_numbers`, from the k-th entry on: one
\* "Matched" entry per appended row
RECURSIVE MatchTargets(_, _, _, _)
MatchTargets(timetable0, url_lesson_type0, class_numbers0, k0) ==
    Bind(timetable0, LAMBDA timetable : Bind(url_lesson_type0, LAMBDA url_lesson_type :
    Bind(class_numbers0, LAMBDA class_numbers : Bind(k0, LAMBDA k :
        IF k > Len(class_numbers) THEN <<>>
        ELSE Bind(MatchingRows(timetable, 1, ApiLessonType(url_lesson_type),
                               Strip(class_numbers[k])), LAMBDA rows :
                 [n \in 1..Len(rows) |->
                     [lessonType |-> url_lesson_type, classNo |-> class_numbers[k],
                      target |-> k, row |-> rows[n]]])
             \o MatchTargets(timetable, url_lesson_type, class_numbers, k + 1)))))

\* `for url_lesson_type, class_numbers in lesson_types.items()`
RECURSIVE MatchLessonTypes(_, _)
MatchLessonTypes(timetable0, lesson_types0) ==
    Bind(timetable0, LAMBDA timetable : Bind(lesson_types0, LAMBDA lesson_types :
        IF Len(lesson_types) = 0 THEN <<>>
        ELSE MatchTargets(timetable, Head(lesson_types).key, Head(lesson_types).val, 1)
             \o MatchLessonTypes(timetable, Tail(lesson_types))))

EnrichedLesson(lesson0) ==
    Bind(lesson0, LAMBDA lesson :
        [day        |-> GetOr(lesson.day, TBA),
         startTime  |-> GetOr(lesson.startTime, TBA),
         endTime    |-> GetOr(lesson.endTime, TBA),
         venue      |-> GetOr(lesson.venue, TBA),
         lessonType |-> lesson.lessonType,
         classNo    |-> CurrentClassNo(lesson)])

\* one iteration of `for module_code, lesson_types in modules.items()` after
\* the fetch: the "Matched" entries of the module, none when the data is
\* None/empty or carries no record of the semester
ModuleMatches(lesson_types, module_data0, semester) ==
    Bind(module_data0, LAMBDA module_data :
        IF module_data.none THEN <<>>
        ELSE Bind(FindSemester(module_data, semester), LAMBDA semester_data :
             IF ~semester_data.found THEN <<>>
             ELSE MatchLessonTypes(semester_data.timetable, lesson_types)))

\* the timetable the matches of a module refer to
ModuleTimetable(module_data0, semester) ==
    Bind(module_data0, LAMBDA module_data :
        IF module_data.none THEN <<>> ELSE FindSemester(module_data, semester).timetable)

\* the lessons appended to enriched_schedule[module_code]
ModuleLessons(lesson_types, module_data, semester) ==
    Bind(ModuleMatches(lesson_types, module_data, semester), LAMBDA matches :
    Bind(ModuleTimetable(module_data, semester), LAMBDA timetable :
        [k \in 1..Len(matches) |-> EnrichedLesson(timetable[matches[k].row])]))

\* ---------------------------------------------------------------------------
\* prompt_builder: format_schedule_data and build_prompt
\* ---------------------------------------------------------------------------

LowerChar(c) ==
    IF \E i \in 1..26 : UpperAlpha[i] = c
    THEN LowerAlpha[CHOOSE i \in 1..26 : UpperAlpha[i] = c]
    ELSE c

\* s.capitalize(): first character upper-cased, the others lower-cased
Capitalize(s0) ==
    Bind(s0, LAMBDA s :
        [i \in 1..Len(s) |-> IF i = 1 THEN UpperChar(s[i]) ELSE LowerChar(s[i])])

\* sep.join(parts)
RECURSIVE Join(_, _)
Join(parts0, sep) ==
    Bind(parts0, LAMBDA parts :
        IF Len(parts) = 0 THEN <<>>
        ELSE IF Len(parts) = 1 THEN parts[1]
        ELSE Bind(Len(parts) \div 2, LAMBDA h :
                 Join(SubSeq(parts, 1, h), sep) \o sep
                 \o Join(SubSeq(parts, h + 1, Len(parts)), sep)))

Newline == <<"\n">>

\* a triple-quoted literal, given by its lines
Text(lines) == Join([i \in 1..Len(lines) |-> Chars(lines[i])], Newline)

\* d.get(k, default)
DictGetOr(d0, k0, default) ==
    Bind(d0, LAMBDA d : Bind(k0, LAMBDA k :
        IF DictHas(d, k) THEN DictGet(d, k) ELSE default))

\* template.format(**args): every {name} is replaced by args[name]; the
\* replacement text is not scanned again
RECURSIVE Format(_, _)
Format(template0, args0) ==
    Bind(template0, LAMBDA t : Bind(args0, LAMBDA args :
    Bind(IndexOf(t, "{"), LAMBDA i :
        IF i = 0 THEN t
        ELSE Bind(IndexOf(From(t, i + 1), "}"), LAMBDA j :
                 SubSeq(t, 1, i - 1)
                 \o DictGet(args, SubSeq(t, i + 1, i + j - 1))
                 \o Format(From(t, i + j + 1), args)))))

\* GENERATION_PROMPT_TEMPLATE, line by line; {name} marks a replacement field
GENERATION_PROMPT_TEMPLATE ==
    Text(<< "Create a clean, READABLE university timetable wallpaper ({aspect_ratio} aspect ratio, portrait orientation).",
            "",
            "SCHEDULE DATA TO DISPLAY:",
            "{schedule_data}",
            "",
            "YOUR TASK:",
            "Generate a timetable wallpaper that displays this exact schedule in a flat, visually beautiful layout. THIS IS WALLPAPER ONLY - NO DEVICE FRAME, NO PHONE MOCKUP.",
            "",
            "CRITICAL REQUIREMENTS (in order of priority):",
            "",
            "1. WALLPAPER CONTENT ONLY:",
            "   - GENERATE ONLY THE TIMETABLE/SCHEDULE ITSELF",
            "   - NO iPhone frame, NO phone border, NO device bezel",
            "   - NO status bar, NO notch, NO home indicator",
            "   - NO phone mockup or device frame of any kind",
            "   - Just the raw timetable/wallpaper content filling the entire image",
            "   - Portrait orientation ({aspect_ratio})",
            "",
            "2. READABILITY FIRST:",
            "   - Use LARGE, LEGIBLE text (minimum 14pt for body text, 18pt+ for course codes)",
            "   - High contrast between text and background",
            "   - Clear visual hierarchy (course codes most prominent, then times, then venues)",
            "   - Generous line spacing between entries",
            "",
            "3. TIMETABLE LAYOUT (NO CARDS):",
            "   - Design as a FLAT timetable grid/list layout",
            "   - Organize by days of the week (Monday through Friday columns or sections)",
            "   - Show time slots running vertically",
            "   - Each class entry should be a simple colored block/rectangle",
            "   - Use consistent color coding for each course across all sessions",
            "   - Include day headers (Mon, Tue, Wed, Thu, Fri)",
            "   - Include time markers on the side (08:00, 10:00, 12:00, etc.)",
            "",
            "4. VISUAL STYLE:",
            "   - Apply the {style_name} aesthetic described below",
            "   - NO card UI elements (no shadows, no borders, no rounded corners on cards)",
            "   - Flat design with direct text on background",
            "   - Use color blocks to distinguish different courses",
            "   - Clean, minimal, functional design",
            "",
            "5. DISPLAY ALL SCHEDULE DATA:",
            "   - Show ALL courses, times, days, lesson types, and venues listed above",
            "   - Format each entry as: \"[Course Code] [Lesson Type] @ [Venue]\"",
            "   - Place entries in their corresponding day/time slots",
            "   - Use consistent colors for each course",
            "   - Leave margins on all sides (at least 5% of width/height)",
            "",
            "STYLE SPECIFICATIONS:",
            "{style_description}",
            "",
            "OUTPUT FORMAT:",
            "- Portrait orientation",
            "- Grid/timetable layout (columns for days, rows for time slots)",
            "- Maximum visual clarity and readability",
            "- Beautiful design that people want to use as wallpaper",
            "- All schedule information clearly displayed in timetable format",
            "- Professional, polished appearance",
            "- NO card UI, NO shadows, NO rounded card containers",
            "- ABSOLUTELY NO DEVICE MOCKUP, PHONE FRAME, OR UI CHROME",
            "",
            "Remember: This is a TIMETABLE WALLPAPER - just the schedule layout itself, no device frame. Organize by day and time. Make it READABLE first, pretty second. Fill the entire {aspect_ratio} portrait space with pure timetable content.",
            "" >>)

\* STYLE_DESCRIPTIONS: design style -> theme -> description, line by line
\* (a character outside ASCII is written ?)
STYLE_DESCRIPTIONS ==
    <<
      [key |-> Chars("minimalist"), val |-> <<
           [key |-> Chars("light"), val |->
             Text(<< "",
                     "MINIMALIST LIGHT STYLE:",
                     "- Clean white or light gray background (#F8F9FA)",
                     "- Large course code text (20-24pt, bold, dark gray/black) directly on background",
                     "- Simple flat color blocks for each course (muted pastels: pale blue, mint, lavender)",
                     "- Thin grid lines separating days and time slots",
                     "- Clean sans-serif typography throughout",
                     "- Time and venue info in 14-16pt directly on colored blocks",
                     "- NO cards, NO shadows - pure flat design",
                     "- Thin divider lines between time slots and days",
                     "- Professional, clean, paper-like timetable appearance",
                     "- Focus on whitespace and breathing room",
                     "" >>)],
           [key |-> Chars("dark"), val |->
             Text(<< "",
                     "MINIMALIST DARK STYLE:",
                     "- Deep charcoal background (#121212)",
                     "- Large white course codes (20-24pt, bold) directly on background",
                     "- Muted dark color blocks for each class (dark blue, dark green, dark amber)",
                     "- Clean white/light gray text for readability",
                     "- Thin grid lines in dark gray",
                     "- Time and venue info in 14-16pt white text",
                     "- NO cards, NO elevation - flat timetable design",
                     "- OLED-friendly with generous spacing",
                     "- Sleek, modern aesthetic",
                     "- Emphasis on maximum readability",
                     "" >>)] >>],
      [key |-> Chars("gradient"), val |-> <<
           [key |-> Chars("light"), val |->
             Text(<< "",
                     "GRADIENT LIGHT STYLE:",
                     "- Soft gradient background (pink to lavender or peach to mint)",
                     "- Large, bold course codes (22-26pt) with gradient fills directly on background",
                     "- Each class slot has a smooth gradient background matching the course",
                     "- Modern flat design - NO rounded corners on blocks",
                     "- High contrast text with subtle shadows for readability",
                     "- Time and venue in 14-16pt",
                     "- Flowing color transitions for course blocks",
                     "- Thin grid lines for timetable structure",
                     "- Contemporary, elegant timetable aesthetic",
                     "- Generous spacing for touch-friendly layout",
                     "" >>)],
           [key |-> Chars("dark"), val |->
             Text(<< "",
                     "GRADIENT DARK STYLE:",
                     "- Deep gradient background (navy to purple)",
                     "- Large white/cream course codes (22-26pt, bold) directly on blocks",
                     "- Vibrant gradient blocks for each class (magenta-purple, cyan-blue, amber-orange)",
                     "- Soft glow effects around class blocks",
                     "- Rich saturated colors with readable text",
                     "- Time and venue in 14-16pt white text",
                     "- Flat timetable grid optimized for vertical viewing",
                     "- Thin divider lines between slots",
                     "- Sophisticated night aesthetic",
                     "- Each course has unique gradient identity",
                     "" >>)] >>],
      [key |-> Chars("neon"), val |-> <<
           [key |-> Chars("light"), val |->
             Text(<< "",
                     "NEON LIGHT STYLE:",
                     "- White or light gray background",
                     "- Large bold course codes (24-28pt) with neon colored text directly on background",
                     "- Bright neon colored blocks for each class (electric pink, lime, cyan, yellow)",
                     "- Thin neon colored grid lines (2-3px)",
                     "- Bold geometric typography for maximum impact",
                     "- Time and venue in 16-18pt",
                     "- Energetic, electric feel with high contrast",
                     "- Each course has unique neon accent color",
                     "- Flat timetable layout with neon grid dividers",
                     "- NO cards - direct neon blocks on white background",
                     "- Touch-friendly spacing between elements",
                     "" >>)],
           [key |-> Chars("dark"), val |->
             Text(<< "",
                     "NEON DARK STYLE:",
                     "- Pure black background (#000000)",
                     "- Large glowing neon course codes (24-28pt) directly on blocks",
                     "- Strong neon glow effects on class blocks (hot pink, electric blue, lime green, orange)",
                     "- High contrast white text on blocks",
                     "- Time and venue in 16-18pt with subtle glow",
                     "- Flat timetable grid layout with glowing dividers",
                     "- Cyberpunk aesthetic with maximum readability",
                     "- OLED-friendly true blacks",
                     "- Each course gets unique neon signature color",
                     "- NO card containers - just glowing blocks in grid",
                     "- Generous spacing for futuristic look",
                     "" >>)] >>],
      [key |-> Chars("pastel"), val |-> <<
           [key |-> Chars("light"), val |->
             Text(<< "",
                     "PASTEL LIGHT STYLE:",
                     "- Cream or light blush background (#FFF5F0)",
                     "- Large, friendly course codes (22-26pt, rounded font) directly on blocks",
                     "- Soft pastel blocks for each class (baby pink, mint, lavender, peach, sky blue)",
                     "- Rounded corners on class blocks only (8-12px) - NOT on cards",
                     "- Time and venue in 14-16pt",
                     "- Small cute decorative elements in margins (tiny stars ???, hearts ???)",
                     "- Flat timetable grid layout with gentle spacing",
                     "- Thin pastel divider lines between slots",
                     "- Warm, cozy, inviting aesthetic",
                     "- Each course gets soft pastel identity",
                     "- Clean grid structure, touch-friendly spacing",
                     "" >>)],
           [key |-> Chars("dark"), val |->
             Text(<< "",
                     "PASTEL DARK STYLE:",
                     "- Deep purple or midnight blue background (#1A1025) with subtle stars",
                     "- Large cream/white course codes (22-26pt) directly on blocks",
                     "- Muted dark pastel blocks for classes (dusty pink, teal, lavender)",
                     "- Cream/light text for readability",
                     "- Time and venue in 14-16pt",
                     "- Small moon ??? and star ??? decorations in margins",
                     "- Flat timetable grid layout",
                     "- Thin divider lines in muted colors",
                     "- Dreamy, nighttime aesthetic",
                     "- Cozy and comfortable vibe",
                     "- NO cards - just colored blocks in grid",
                     "- Generous spacing for relaxed feel",
                     "" >>)] >>],
      [key |-> Chars("glass"), val |-> <<
           [key |-> Chars("light"), val |->
             Text(<< "",
                     "GLASSMORPHISM LIGHT STYLE:",
                     "- Soft gradient background (light blue to lavender)",
                     "- Large bold course codes (22-26pt, dark text) directly on glass blocks",
                     "- Frosted glass effect on class blocks (white at 60% opacity with blur)",
                     "- Subtle white borders around blocks for depth",
                     "- Time and venue in 14-16pt through glass effect",
                     "- Light refractions on blocks",
                     "- Flat timetable grid layout with glass separation",
                     "- Thin grid lines for structure",
                     "- iOS/macOS inspired aesthetic",
                     "- Premium, modern feel with excellent readability",
                     "- NO card containers - just glass blocks in grid",
                     "" >>)],
           [key |-> Chars("dark"), val |->
             Text(<< "",
                     "GLASSMORPHISM DARK STYLE:",
                     "- Deep gradient background (dark purple to blue)",
                     "- Large white course codes (22-26pt, bold) directly on glass blocks",
                     "- Dark frosted glass blocks with subtle transparency for each class",
                     "- Soft glow effects for depth and readability",
                     "- Time and venue in 14-16pt white text",
                     "- Flat timetable grid with glass block separation",
                     "- Thin glowing divider lines",
                     "- Apple-style glassmorphism",
                     "- Sophisticated, premium dark mode",
                     "- Each block has distinct glass effect",
                     "- NO card UI - just glass blocks in timetable grid",
                     "- Touch-friendly spacing",
                     "" >>)] >>],
      [key |-> Chars("retro"), val |-> <<
           [key |-> Chars("light"), val |->
             Text(<< "",
                     "RETRO LIGHT STYLE:",
                     "- Warm cream background (#F5F1E8) with subtle paper texture",
                     "- Large bold course codes (24-28pt, retro rounded font) directly on blocks",
                     "- Retro colored blocks for classes (mustard, burnt orange, olive, teal, rusty red)",
                     "- Rounded retro typography throughout",
                     "- Time and venue in 16-18pt",
                     "- 70s/80s inspired palette with high contrast",
                     "- Flat timetable grid with vintage borders",
                     "- Thin colored divider lines",
                     "- Mid-century modern influence",
                     "- Slight vintage aesthetic with modern readability",
                     "- NO cards - just colored blocks in grid",
                     "- Generous spacing for retro chunky look",
                     "" >>)],
           [key |-> Chars("dark"), val |->
             Text(<< "",
                     "RETRO DARK STYLE:",
                     "- Deep brown or dark navy background (#1A0F0A)",
                     "- Large gold/cream course codes (24-28pt, bold retro font) directly on blocks",
                     "- Dark retro colored blocks for classes (deep teal, burgundy, forest green, mustard)",
                     "- Gold/cream text for contrast",
                     "- Time and venue in 16-18pt",
                     "- Art deco influences with geometric patterns",
                     "- Flat timetable grid layout",
                     "- Thin gold divider lines",
                     "- Film noir aesthetic",
                     "- Sophisticated vintage feel",
                     "- NO card containers - just colored blocks in grid",
                     "- Touch-friendly spacing",
                     "" >>)] >>],
      [key |-> Chars("kawaii"), val |-> <<
           [key |-> Chars("light"), val |->
             Text(<< "",
                     "KAWAII LIGHT STYLE:",
                     "- Warm cream or pale pink background (#FFF8F0)",
                     "- Large, cute course codes (24-28pt, rounded bubbly font) directly on blocks",
                     "- Soft pastel blocks for classes (peach, mint, lavender, baby blue, soft yellow)",
                     "- Rounded friendly fonts throughout",
                     "- Time and venue in 16-18pt",
                     "- Small cute decorative elements in margins: tiny stars ???, hearts ???, sparkles ???",
                     "- Small emoji icons near course codes (books ????, coffee ???, pencil ????)",
                     "- Flat timetable grid layout with generous spacing",
                     "- Soft beige grid lines between slots",
                     "- Rounded corners on class blocks only (12-16px)",
                     "- Japanese stationery/bullet journal inspired",
                     "- Planner-style timetable with hand-drawn feel",
                     "- Weekly schedule header at top",
                     "- NO card containers - just colored blocks in grid",
                     "- Touch-friendly spacing",
                     "" >>)],
           [key |-> Chars("dark"), val |->
             Text(<< "",
                     "KAWAII DARK STYLE:",
                     "- Deep purple background (#1A1025) with subtle star pattern",
                     "- Large cream/white course codes (24-28pt, rounded cute font) directly on blocks",
                     "- Muted dark pastel blocks for classes (dusty pink, sage green, muted lavender)",
                     "- Cream colored text for readability",
                     "- Time and venue in 16-18pt",
                     "- Celestial decorations in margins: stars ???, moons ???, sparkles ???",
                     "- Small emoji touches (moon ????, stars ??, clouds ????)",
                     "- Soft glowing effects on class blocks like fairy lights",
                     "- Flat timetable grid layout",
                     "- Thin glowing divider lines",
                     "- Dreamy, cozy night aesthetic",
                     "- Night-mode bullet journal style planner",
                     "- Each block has subtle inner glow",
                     "- NO card UI - just glowing blocks in grid",
                     "- Generous spacing for kawaii aesthetic",
                     "- Weekly schedule header with stars",
                     "" >>)] >>] >>

LESSON_TYPE_NAMES ==
    << [key |-> Chars("LEC"),  val |-> Chars("Lecture")],
       [key |-> Chars("TUT"),  val |-> Chars("Tutorial")],
       [key |-> Chars("LAB"),  val |-> Chars("Laboratory")],
       [key |-> Chars("REC"),  val |-> Chars("Recitation")],
       [key |-> Chars("SEC"),  val |-> Chars("Sectional")],
       [key |-> Chars("SEM"),  val |-> Chars("Seminar")],
       [key |-> Chars("DLEC"), val |-> Chars("Design Lecture")],
       [key |-> Chars("PLEC"), val |-> Chars("Packaged Lecture")],
       [key |-> Chars("PTUT"), val |-> Chars("Packaged Tutorial")],
       [key |-> Chars("WS"),   val |-> Chars("Workshop")] >>

days_of_week ==
    << Chars("Monday"), Chars("Tuesday"), Chars("Wednesday"), Chars("Thursday"),
       Chars("Friday"), Chars("Saturday"), Chars("Sunday") >>

\* the four spellings of day d of the week: name, abbreviation, letter, digit
DayEntries(d, abbr, letter, digit) ==
    << [key |-> days_of_week[d], val |-> days_of_week[d]],
       [key |-> Chars(abbr),     val |-> days_of_week[d]],
       [key |-> Chars(letter),   val |-> days_of_week[d]],
       [key |-> Chars(digit),    val |-> days_of_week[d]] >>

DAY_NAMES ==
    DayEntries(1, "Mon", "M", "1") \o DayEntries(2, "Tue", "T", "2")
    \o DayEntries(3, "Wed", "W", "3") \o DayEntries(4, "Thu", "Th", "4")
    \o DayEntries(5, "Fri", "F", "5") \o DayEntries(6, "Sat", "S", "6")
    \o DayEntries(7, "Sun", "U", "7")

\* day = DAY_NAMES.get(str(day_raw), day_raw)
NormalizeDay(lesson) == Bind(GetOr(lesson.day, TBA), LAMBDA day_raw :
    DictGetOr(DAY_NAMES, day_raw, day_raw))

\* "1000" -> "10:00"
FormatTime(time0) ==
    Bind(time0, LAMBDA time :
        IF time # TBA /\ Len(time) = 4
        THEN SubSeq(time, 1, 2) \o <<":">> \o From(time, 3)
        ELSE time)

\* the line of one lesson under its day
LessonLine(module_code, lesson0) ==
    Bind(lesson0, LAMBDA lesson :
    Bind(GetOr(lesson.lessonType, <<>>), LAMBDA lesson_type_abbr :
        Chars("  - ") \o module_code \o Chars(" ")
        \o DictGetOr(LESSON_TYPE_NAMES, lesson_type_abbr, lesson_type_abbr)
        \o Chars(" - ") \o FormatTime(GetOr(lesson.startTime, TBA))
        \o Chars("-") \o FormatTime(GetOr(lesson.endTime, TBA))
        \o Chars(" @ ") \o GetOr(lesson.venue, TBA)))

\* every (module_code, lesson) pair in the order of the two nested loops over
\* enriched_schedule.items() and the module's list
RECURSIVE AllLessons(_)
AllLessons(schedule0) ==
    Bind(schedule0, LAMBDA schedule :
        IF Len(schedule) = 0 THEN <<>>
        ELSE [k \in 1..Len(schedule[1].val) |->
                 [module_code |-> schedule[1].key, lesson |-> schedule[1].val[k]]]
             \o AllLessons(Tail(schedule)))

\* variant: the lessons of a day are listed latest first
DayLessonsReversed(all0, day) ==
    Bind(all0, LAMBDA all :
    Bind({k \in 1..Len(all) : NormalizeDay(all[k].lesson) = day}, LAMBDA hits :
        [n \in 1..Cardinality(hits) |->
            all[CHOOSE k \in hits : Cardinality({h \in hits : h >= k}) = n]]))

\* lessons_by_day[day]: the pairs whose normalized day is `day`, in the order
\* they were appended; a pair whose day is no key of lessons_by_day is stored
\* nowhere
DayLessons(all0, day) ==
    Bind(all0, LAMBDA all :
    Bind({k \in 1..Len(all) : NormalizeDay(all[k].lesson) = day}, LAMBDA hits :
        [n \in 1..Cardinality(hits) |->
            all[CHOOSE k \in hits : Cardinality({h \in hits : h <= k}) = n]]))

\* the lines of one day: nothing for a day without lessons, else the header,
\* one line per lesson and an empty line
DaySection(all, day) ==
    Bind(DayLessons(all, day), LAMBDA day_lessons :
        IF Len(day_lessons) = 0 THEN <<>>
        ELSE << Chars("**") \o day \o Chars(":**") >>
             \o [k \in 1..Len(day_lessons) |->
                    LessonLine(day_lessons[k].module_code, day_lessons[k].lesson)]
             \o << <<>> >>)

\* schedule_lines of format_schedule_data for a non-empty dict
ScheduleLines(enriched_schedule) ==
    Bind(AllLessons(enriched_schedule), LAMBDA all :
        << Chars("Schedule:"), <<>> >>
        \o DaySection(all, days_of_week[1]) \o DaySection(all, days_of_week[2])
        \o DaySection(all, days_of_week[3]) \o DaySection(all, days_of_week[4])
        \o DaySection(all, days_of_week[5]) \o DaySection(all, days_of_week[6])
        \o DaySection(all, days_of_week[7]))

format_schedule_data(enriched_schedule0) ==
    Bind(enriched_schedule0, LAMBDA enriched_schedule :
        IF Len(enriched_schedule) = 0 THEN Chars("No schedule data available")
        ELSE Join(ScheduleLines(enriched_schedule), Newline))

\* the keyword arguments build_prompt passes to GENERATION_PROMPT_TEMPLATE.format
PromptFields(design_style0, theme0, aspect_ratio, enriched_schedule0) ==
    Bind(design_style0, LAMBDA design_style : Bind(theme0, LAMBDA theme :
    Bind(enriched_schedule0, LAMBDA enriched_schedule :
    Bind(DictGetOr(STYLE_DESCRIPTIONS, design_style,
                   DictGet(STYLE_DESCRIPTIONS, Chars("minimalist"))), LAMBDA style_desc :
        << [key |-> Chars("style_name"),
            val |-> Capitalize(design_style) \o Chars(" ") \o Capitalize(theme)],
           [key |-> Chars("style_description"),
            val |-> DictGetOr(style_desc, theme, DictGet(style_desc, Chars("light")))],
           [key |-> Chars("aspect_ratio"), val |-> aspect_ratio],
           [key |-> Chars("schedule_data"),
            val |-> IF Len(enriched_schedule) > 0
                    THEN format_schedule_data(enriched_schedule)
                    ELSE Chars("No schedule data provided")] >>))))

build_prompt(design_style, theme, aspect_ratio, enriched_schedule) ==
    Format(GENERATION_PROMPT_TEMPLATE,
           PromptFields(design_style, theme, aspect_ratio, enriched_schedule))

\* ---------------------------------------------------------------------------
\* Inputs: share URLs and catalog responses
\* ---------------------------------------------------------------------------

\* largest number of name=value fields in a query string of the model
MaxFields == 2

Hosts ==
    { Chars("nusmods.com"), Chars("other.com"), Chars("nusmods.com.evil.org") }

Paths ==
    { Chars("/timetable/sem-2/share"),
      Chars("/timetable/sem-1/share"),
      Chars("/timetable/sem-0/share"),
      Chars("/sem-2/share"),
      Chars("/timetable/v2/sem-2/share"),
      Chars("/timetable/share"),
      Chars("/timetable/sem-x/share") }

Queries ==
    { Chars(""),
      Chars("?CS2040=LEC:(34,35)"),
      Chars("?CS2040=TUT:(03);LEC:(34,35)"),
      Chars("?CS101=LEC:(01)"),
      Chars("?CS101=LEC:(1)"),
      Chars("?cs101=lec:1,TUT:(3,4)"),
      Chars("?BT2102=LAB:(7);LEC:(1)&CS2040=TUT:(3);SEC:E1"),
      Chars("?=LEC:1"),
      Chars("?MA1521=LEC&BT2102=LEC:()"),
      Chars("?CS101=LEC:1&MA1521=TUT:4;X:9"),
      Chars("?CS101=LEC:1&MA1521=TUT:4&BT2102=LAB:7"),
      Chars("?CS101=LEC:(1,01);TUT:4"),
      Chars("?CS101=LEC:1;LECTURE:1"),
      Chars("?CS101=LEC:(1,1);TUT:4") }

\* number of name=value fields of a query string
NumFields(q) == IF Len(q) = 0 THEN 0 ELSE Len(Split(q, "&"))

Urls ==
    { Chars("https://") \o h \o p \o q :
        h \in Hosts, p \in Paths, q \in {x \in Queries : NumFields(x) <= MaxFields} }

Row(lessonType, classNo, day, startTime, endTime, venue) ==
    [lessonType |-> lessonType, classNo |-> classNo, day |-> day,
     startTime |-> startTime, endTime |-> endTime, venue |-> venue]

\* a timetable in which class 1 of the lecture meets twice, class numbers are
\* zero-padded inconsistently and one row lacks optional fields
TimetableA ==
    << Row(Chars("Lecture"), Chars("1"), Chars("Monday"), Chars("0800"), Chars("1000"), Chars("LT1")),
       Row(Chars("Tutorial"), Chars("03"), Chars("Tuesday"), Chars("1400"), Chars("1500"), Chars("COM1")),
       Row(Chars("Lecture"), Chars("1"), Chars("Wednesday"), Chars("0800"), Chars("1000"), Chars("LT1")),
       Row(Chars("Lecture"), Chars("02"), Chars("Thursday"), Chars("0900"), Chars("1000"), Chars("LT2")),
       Row(Chars("Laboratory"), Chars("07"), Missing, Missing, Missing, Missing),
       Row(Chars("Lecture"), Chars("34"), Chars("Friday"), Chars("1200"), Chars("1300"), Chars("LT3")),
       Row(Chars("Lecture"), Chars("35"), Chars("Friday"), Chars("1300"), Chars("1400"), Chars("LT3")),
       Row(Chars("Tutorial"), Chars("4"), Chars("TBA"), Chars("TBA"), Chars("TBA"), Chars("TBA")),
       Row(Chars("Sectional Teaching"), Chars("E1"), Chars("Monday"), Chars("1000"), Chars("1200"), Chars("SR1")),
       Row(Chars("Tutorial"), Chars("1"), Chars("Monday"), Chars("1600"), Chars("1700"), Chars("COM2")) >>

TimetableB ==
    << Row(Chars("Lecture"), Chars("01"), Chars("Tuesday"), Chars("1000"), Chars("1200"), Chars("LT9")),
       Row(Chars("Lecture"), Chars("2"), Chars("Tuesday"), Chars("1000"), Chars("1200"), Chars("LT8")),
       Row(Chars("Tutorial"), Chars("4"), Chars("Friday"), Chars("0900"), Chars("1000"), Chars("COM3")) >>

Body(hasSemesterData, semesterData) ==
    [none |-> FALSE, hasSemesterData |-> hasSemesterData, semesterData |-> semesterData]

Bodies ==
    { Body(FALSE, <<>>),
      Body(TRUE, << [semester |-> 1, timetable |-> TimetableB] >>),
      Body(TRUE, << [semester |-> 1, timetable |-> TimetableB],
                    [semester |-> 2, timetable |-> TimetableA] >>),
      Body(TRUE, << [semester |-> 2, timetable |-> <<>>] >>) }

\* an HTTP request: its method, whether its body is JSON, and the
\* design_style and theme fields of the body (Missing when absent); the
\* nusmods_url field is the variable url, empty when absent
Request(method, json, style, th) ==
    [method |-> method, json |-> json, design_style |-> style, theme |-> th]

NoRequest == Request("", FALSE, Missing, Missing)

\* design_style and theme fields of the well-formed requests considered:
\* both absent, and both given in capitals
RequestStyles ==
    { <<Missing, Missing>>, <<Chars("NEON"), Chars("Dark")>> }

\* requests the checks before Step 1 turn down: wrong method, a body that is
\* not JSON, no nusmods_url, an unknown design_style, an unknown theme
FaultyRequests ==
    Bind(Chars("https://nusmods.com/timetable/sem-2/share?CS2040=LEC:(34,35)"),
         LAMBDA u :
        { [url |-> u,    request |-> Request("GET", TRUE, Missing, Missing)],
          [url |-> <<>>, request |-> Request("POST", FALSE, Missing, Missing)],
          [url |-> <<>>, request |-> Request("POST", TRUE, Missing, Missing)],
          [url |-> u,    request |-> Request("POST", TRUE, Chars("bogus"), Missing)],
          [url |-> u,    request |-> Request("POST", TRUE, Missing, Chars("sepia"))] })

\* the dates at which the requests considered arrive
ClockReadings ==
    { [year |-> 2026, month |-> 7, day |-> 31], [year |-> 2026, month |-> 8, day |-> 1] }

\* what requests.get / raise_for_status / response.json() can produce
Responses ==
    { [kind |-> "ok", body |-> b] : b \in Bodies }
    \cup { [kind |-> k, body |-> None] : k \in {"timeout", "connection_error", "http_error"} }

\* ---------------------------------------------------------------------------
\* generate_wallpaper: one request through the pipeline
\* ---------------------------------------------------------------------------

VARIABLES
    url,                \* nusmods_url of the request
    pc,                 \* "validate", "parse", "enrich", "generate", "models", "done"
    parsed,             \* result of parse_nusmods_url
    idx,                \* position of the enrich loop in modules.items()
    enriched_schedule,  \* dict module code -> list of EnrichedLesson
    responses,          \* the catalog response each fetch received, in order
    requests,           \* URLs of the outbound catalog GETs, in order
    matched,            \* the "Matched" log entries of the enrich loop
    model_idx,          \* position in models_to_try
    last_error,         \* last_error is not None
    image_calls,        \* number of generate_images calls made
    http_response,      \* the response returned to the caller
    design_style,       \* design_style of the handler
    theme,              \* theme of the handler
    now,                \* the value datetime.now() returned
    academic_year,      \* academic_year of enrich_schedule_with_api_data
    prompt,             \* style_prompt, the result of build_prompt
    schedule_data,      \* the result of a direct call of format_schedule_data
    request,            \* method and body of the HTTP request
    attempts,           \* the generate_images calls made: model and outcome
    stylize             \* how the call of stylize_timetable ended

vars == <<url, pc, parsed, idx, enriched_schedule, responses, requests, matched,
          model_idx, last_error, image_calls, http_response,
          design_style, theme, now, academic_year, prompt, schedule_data,
          request, attempts, stylize>>

VALID_STYLES ==
    { Chars("minimalist"), Chars("gradient"), Chars("neon"), Chars("pastel"),
      Chars("glass"), Chars("retro"), Chars("kawaii") }

VALID_THEMES == { Chars("light"), Chars("dark") }

CORE_ASPECT_RATIO == Chars("9:16")

\* a date as datetime.now() reports it
Date(year, month, day) == [year |-> year, month |-> month, day |-> day]

\* the clock has not been read
NoDate == Date(0, 0, 0)

\* models_to_try
MODELS_TO_TRY == <<"imagen-4.0-ultra-generate-001", "imagen-3.0-generate-001">>

NotParsed == [ok |-> FALSE, error |-> "", semester |-> -1, modules |-> <<>>]

NoResponse == [status |-> 0, keys |-> {}, error |-> "", modules |-> <<>>]

ErrorResponse(status, msg) ==
    [status |-> status, keys |-> {"error"}, error |-> msg, modules |-> <<>>]

\* the response of `except Exception`
InternalErrorResponse(type, msg) ==
    [status |-> 500, keys |-> {"error", "type"}, error |-> msg, modules |-> <<>>]

SuccessResponse(module_codes) ==
    [status |-> 200, keys |-> {"success", "image_base64", "modules"}, error |-> "",
     modules |-> module_codes]

\* stylize_timetable is still running
Running == [kind |-> "running", message |-> "", model |-> ""]

\* stylize_timetable returned the image of model_name
Returned(model_name) == [kind |-> "image", message |-> "", model |-> model_name]

\* stylize_timetable raised an exception of class kind
Raised(kind, message) == [kind |-> kind, message |-> message, model |-> ""]

\* the handler's locals before Step 1
Fresh ==
    /\ parsed = NotParsed
    /\ idx = 1
    /\ responses = <<>>
    /\ requests = <<>>
    /\ matched = <<>>
    /\ model_idx = 1
    /\ last_error = FALSE
    /\ image_calls = 0
    /\ http_response = NoResponse
    /\ academic_year = <<>>
    /\ prompt = <<>>
    /\ schedule_data = <<>>
    /\ attempts = <<>>
    /\ stylize = Running

Init ==
    /\ \/ /\ url \in Urls
          /\ \E st \in RequestStyles : request = Request("POST", TRUE, st[1], st[2])
       \/ \E f \in FaultyRequests : url = f.url /\ request = f.request
    /\ design_style = <<>>
    /\ theme = <<>>
    /\ pc = "validate"
    /\ enriched_schedule = <<>>
    /\ now = NoDate
    /\ Fresh

\* s.lower()
Lower(s0) == Bind(s0, LAMBDA s : [i \in 1..Len(s) |-> LowerChar(s[i])])

\* the checks before the try block: the method, the JSON body and the three
\* fields; design_style and theme are lower-cased, absent ones defaulted
ValidateRequest ==
    /\ pc = "validate"
    /\ \E style \in {Lower(GetOr(request.design_style, Chars("kawaii")))} :
       \E th \in {Lower(GetOr(request.theme, Chars("light")))} :
          IF request.method # "POST"
          THEN /\ http_response' = ErrorResponse(405, "Method not allowed. Use POST.")
               /\ pc' = "done"
               /\ UNCHANGED <<design_style, theme>>
          ELSE IF ~request.json
          THEN /\ http_response' = ErrorResponse(400, "Invalid JSON body")
               /\ pc' = "done"
               /\ UNCHANGED <<design_style, theme>>
          ELSE /\ design_style' = style
               /\ theme' = th
               /\ IF Len(url) = 0
                  THEN /\ http_response' =
                             ErrorResponse(400, "Missing required field: nusmods_url")
                       /\ pc' = "done"
                  ELSE IF style \notin VALID_STYLES
                  THEN /\ http_response' = ErrorResponse(400, "Invalid design_style")
                       /\ pc' = "done"
                  ELSE IF th \notin VALID_THEMES
                  THEN /\ http_response' = ErrorResponse(400, "Invalid theme")
                       /\ pc' = "done"
                  ELSE /\ pc' = "parse"
                       /\ UNCHANGED http_response
    /\ UNCHANGED <<url, parsed, idx, enriched_schedule, responses, requests, matched,
                   model_idx, last_error, image_calls, now, academic_year, prompt,
                   schedule_data, request, attempts, stylize>>

\* variant: a decoding failure does not end the request
AfterParseIgnoringFailure(p) ==
    IF p.ok /\ Len(p.modules) = 0 THEN "done" ELSE "enrich"

\* where generate_wallpaper goes after Step 1
AfterParse(p) ==
    IF ~p.ok THEN "done"
    ELSE IF Len(p.modules) = 0 THEN "done"
    ELSE "enrich"

\* Step 1: parse_nusmods_url; a ValueError is answered with 400, and so is a
\* selection without modules
\* when Step 2 is reached, enrich_schedule_with_api_data reads the clock
\* (`today`) once, before its loop
ParseUrl(today) ==
    /\ pc = "parse"
    /\ \E p \in {parse_nusmods_url(url)} :
       \E after \in {AfterParse(p)} :
           /\ parsed' = p
           /\ pc' = after
           /\ now' = IF after = "enrich" THEN today ELSE now
           /\ academic_year' =
                 IF after = "enrich" THEN get_current_academic_year(today)
                 ELSE academic_year
           /\ http_response' =
                 IF ~p.ok THEN ErrorResponse(400, p.error)
                 ELSE IF Len(p.modules) = 0
                      THEN ErrorResponse(400, "No modules found in the provided URL")
                      ELSE http_response
    /\ UNCHANGED <<url, idx, enriched_schedule, responses, requests, matched,
                   model_idx, last_error, image_calls, design_style, theme, prompt,
                   schedule_data>>
    /\ UNCHANGED <<request, attempts, stylize>>

\* variant: the key is created only once data was fetched
StoreLessonsIfFetched(schedule, module_code, module_data, lessons) ==
    IF module_data.none THEN schedule ELSE DictPut(schedule, module_code, lessons)

\* enriched_schedule[module_code] = [] before the fetch, then one append per
\* matched row: the module's key is set whatever the fetch returns
StoreLessons(schedule, module_code, module_data, lessons) ==
    DictPut(schedule, module_code, lessons)

\* variant: a failed fetch ends the loop (`break` in place of `continue`)
NextModuleBreak(i, n, module_data) == IF module_data.none THEN n + 1 ELSE i + 1

\* the position of the loop over the n modules after the iteration of module
\* i: `continue` on missing data, the end of the body otherwise
NextModule(i, n, module_data) == i + 1

\* Step 2: one iteration of the loop of enrich_schedule_with_api_data, with
\* the catalog answering `response`; after the last module the function
\* returns and the handler builds the prompt (Step 3) and goes on to image
\* generation
EnrichModule(response) ==
    /\ pc = "enrich"
    /\ idx <= Len(parsed.modules)
    /\ \E module_code \in {parsed.modules[idx].key} :
       \E lesson_types \in {parsed.modules[idx].val} :
       \E module_data \in {fetch_module_data(response)} :
       \E matches \in {ModuleMatches(lesson_types, module_data, parsed.semester)} :
       \E next \in {NextModule(idx, Len(parsed.modules), module_data)} :
       \E schedule \in {StoreLessons(enriched_schedule, module_code, module_data,
                           ModuleLessons(lesson_types, module_data, parsed.semester))} :
           /\ requests' = Append(requests,
                                 ModuleUrl(module_code, academic_year, parsed.semester))
           /\ responses' = Append(responses, response)
           /\ enriched_schedule' = schedule
           /\ prompt' =
                 IF next > Len(parsed.modules)
                 THEN build_prompt(design_style, theme, CORE_ASPECT_RATIO, schedule)
                 ELSE prompt
           /\ matched' = matched \o
                 [k \in 1..Len(matches) |->
                     [module |-> module_code, lessonType |-> matches[k].lessonType,
                      classNo |-> matches[k].classNo, target |-> matches[k].target,
                      row |-> matches[k].row]]
           /\ idx' = next
           /\ pc' = IF next > Len(parsed.modules) THEN "generate" ELSE "enrich"
    /\ UNCHANGED <<url, parsed, model_idx, last_error, image_calls, http_response,
                   design_style, theme, now, academic_year, schedule_data>>
    /\ UNCHANGED <<request, attempts, stylize>>

\* the raise after the loop over models_to_try
RaiseAfterLoop(some_error) ==
    IF some_error
    THEN Raised("ValueError", "All Imagen models failed. Last error: ...")
    ELSE Raised("ValueError", "Imagen did not generate an image. Please try again.")

\* where stylize_timetable stands after model number i answered with
\* `outcome`, error telling whether an earlier model raised: an image is
\* returned, a response without image data leaves the loop, an exception
\* goes on to the next model, and after the last one the loop is left
AfterAttempt(outcome, i, error) ==
    IF outcome = "image" THEN Returned(MODELS_TO_TRY[i])
    ELSE IF outcome = "no_image" THEN RaiseAfterLoop(error)
    ELSE IF i = Len(MODELS_TO_TRY) THEN RaiseAfterLoop(TRUE)
    ELSE Running

\* the response of generate_wallpaper once Step 4 is over: 200 with the
\* image, `except ValueError` answers 400, `except Exception` answers 500
Respond(result, module_codes) ==
    IF result.kind = "image" THEN SuccessResponse(module_codes)
    ELSE IF result.kind = "ValueError" THEN ErrorResponse(400, result.message)
    ELSE InternalErrorResponse(result.kind, result.message)

\* Step 4 begins: stylize_timetable creates the genai client, which succeeds
\* or raises; the exception leaves stylize_timetable as it is
InitClient(outcome) ==
    /\ pc = "generate"
    /\ IF outcome = "ok"
       THEN /\ pc' = "models"
            /\ UNCHANGED <<stylize, http_response>>
       ELSE \E result \in {Raised("Exception", "client")} :
               /\ stylize' = result
               /\ http_response' = Respond(result, DictKeys(parsed.modules))
               /\ pc' = "done"
    /\ UNCHANGED <<url, parsed, idx, enriched_schedule, responses, requests, matched,
                   model_idx, last_error, image_calls, design_style, theme, now,
                   academic_year, prompt, schedule_data, request, attempts>>

\* one attempt of stylize_timetable's loop over models_to_try: the model
\* returns an image, answers without image data, or raises
TryModel(outcome) ==
    /\ pc = "models"
    /\ model_idx <= Len(MODELS_TO_TRY)
    /\ image_calls' = image_calls + 1
    /\ attempts' = Append(attempts, [model |-> MODELS_TO_TRY[model_idx],
                                     outcome |-> outcome])
    /\ \E result \in {AfterAttempt(outcome, model_idx, last_error)} :
          /\ stylize' = result
          /\ last_error' = (last_error \/ outcome = "raise")
          /\ model_idx' = IF outcome = "raise" THEN model_idx + 1 ELSE model_idx
          /\ IF result = Running
             THEN UNCHANGED <<http_response, pc>>
             ELSE /\ http_response' = Respond(result, DictKeys(parsed.modules))
                  /\ pc' = "done"
    /\ UNCHANGED <<url, parsed, idx, enriched_schedule, responses, requests, matched,
                   design_style, theme, now, academic_year, prompt, schedule_data,
                   request>>

Next ==
    \/ ValidateRequest
    \/ \E today \in ClockReadings : ParseUrl(today)
    \/ \E response \in Responses : EnrichModule(response)
    \/ \E outcome \in {"ok", "raise"} : InitClient(outcome)
    \/ \E outcome \in {"image", "no_image", "raise"} : TryModel(outcome)

Spec == Init /\ [][Next]_vars

\* ---------------------------------------------------------------------------
\* build_prompt and format_schedule_data called directly, as
\* verify_generation.py calls build_prompt
\* ---------------------------------------------------------------------------

MaxLessons == 2

Lesson(day, startTime, endTime, venue, lessonType, classNo) ==
    [day |-> Chars(day), startTime |-> Chars(startTime), endTime |-> Chars(endTime),
     venue |-> Chars(venue), lessonType |-> Chars(lessonType), classNo |-> Chars(classNo)]

\* lessons whose day is written as a full name, an abbreviation, a digit,
\* 'TBA' and an unknown word
LessonPool ==
    { Lesson("Monday", "0800", "1000", "LT1", "Lecture", "1"),
      Lesson("Mon", "1400", "1500", "COM1", "TUT", "03"),
      Lesson("3", "900", "1000", "LT2", "Laboratory", "07"),
      Lesson("TBA", "TBA", "TBA", "TBA", "Tutorial", "4"),
      Lesson("Someday", "1600", "1700", "SR1", "Lecture", "2") }

\* the lists of at most n lessons
LessonLists(n) == UNION { [1..k -> LessonPool] : k \in 0..n }

\* the empty schedule, and the schedules of two modules
Schedules ==
    { <<>> } \cup
    { << [key |-> Chars("CS2040"), val |-> a], [key |-> Chars("MA1521"), val |-> b] >> :
        a \in LessonLists(MaxLessons), b \in LessonLists(1) }

\* design_style and theme arguments: table entries, and values outside the
\* style table and outside a style's themes
PromptStyles ==
    { <<Chars("minimalist"), Chars("light")>>, <<Chars("neon"), Chars("dark")>>,
      <<Chars("bogus"), Chars("light")>>, <<Chars("bogus"), Chars("dark")>>,
      <<Chars("retro"), Chars("sepia")>> }

InitPrompt ==
    /\ url = <<>>
    /\ request = NoRequest
    /\ \E st \in PromptStyles : design_style = st[1] /\ theme = st[2]
    /\ pc = "call"
    /\ enriched_schedule \in Schedules
    /\ now = NoDate
    /\ Fresh

\* prompt = build_prompt(design_style, theme, "9:16", enriched_schedule)
CallBuildPrompt ==
    /\ pc = "call"
    /\ prompt = <<>>
    /\ prompt' = build_prompt(design_style, theme, CORE_ASPECT_RATIO, enriched_schedule)
    /\ UNCHANGED <<url, pc, parsed, idx, enriched_schedule, responses, requests, matched,
                   model_idx, last_error, image_calls, http_response,
                   design_style, theme, now, academic_year, schedule_data>>
    /\ UNCHANGED <<request, attempts, stylize>>

\* schedule_data = format_schedule_data(enriched_schedule)
CallFormatScheduleData ==
    /\ pc = "call"
    /\ schedule_data = <<>>
    /\ schedule_data' = format_schedule_data(enriched_schedule)
    /\ UNCHANGED <<url, pc, parsed, idx, enriched_schedule, responses, requests, matched,
                   model_idx, last_error, image_calls, http_response,
                   design_style, theme, now, academic_year, prompt>>
    /\ UNCHANGED <<request, attempts, stylize>>

NextPrompt == CallBuildPrompt \/ CallFormatScheduleData

SpecPrompt == InitPrompt /\ [][NextPrompt]_vars

\* ---------------------------------------------------------------------------
\* get_current_academic_year read from a clock that advances day by day
\* ---------------------------------------------------------------------------

FirstYear == 2027

ClockYears == 2

IsLeapYear(year) == (year % 4 = 0 /\ year % 100 # 0) \/ year % 400 = 0

DaysInMonth(year, month) ==
    IF month = 2 THEN (IF IsLeapYear(year) THEN 29 ELSE 28)
    ELSE IF month \in {4, 6, 9, 11} THEN 30
    ELSE 31

\* the date after `date`
NextDay(date) ==
    IF date.day < DaysInMonth(date.year, date.month)
    THEN Date(date.year, date.month, date.day + 1)
    ELSE IF date.month < 12 THEN Date(date.year, date.month + 1, 1)
    ELSE Date(date.year + 1, 1, 1)

InitClock ==
    /\ url = <<>>
    /\ request = NoRequest
    /\ design_style = <<>>
    /\ theme = <<>>
    /\ pc = "clock"
    /\ enriched_schedule = <<>>
    /\ now = Date(FirstYear, 1, 1)
    /\ Fresh

\* a day passes
Tick ==
    /\ pc = "clock"
    /\ now.year < FirstYear + ClockYears
    /\ \E next \in {NextDay(now)} :
          /\ next.year < FirstYear + ClockYears
          /\ now' = next
    /\ UNCHANGED <<url, pc, parsed, idx, enriched_schedule, responses, requests, matched,
                   model_idx, last_error, image_calls, http_response,
                   design_style, theme, academic_year, prompt, schedule_data>>
    /\ UNCHANGED <<request, attempts, stylize>>

\* academic_year = get_current_academic_year()
ReadClock ==
    /\ pc = "clock"
    /\ academic_year' = get_current_academic_year(now)
    /\ UNCHANGED <<url, pc, parsed, idx, enriched_schedule, responses, requests, matched,
                   model_idx, last_error, image_calls, http_response,
                   design_style, theme, now, prompt, schedule_data>>
    /\ UNCHANGED <<request, attempts, stylize>>

NextClock == Tick \/ ReadClock

SpecClock == InitClock /\ [][NextClock]_vars

\* ---------------------------------------------------------------------------
\* Properties
\* ---------------------------------------------------------------------------

\* enrich_schedule_with_api_data has returned
EnrichReturned ==
    pc \in {"generate", "models", "done"} /\ parsed.ok /\ Len(parsed.modules) > 0

\* the fetch of the i-th module failed (timeout, connection error, non-2xx)
FetchFailed(i) == responses[i].kind # "ok"

\* the timetable of the requested term in the i-th module's response
TermFound(i) ==
    /\ responses[i].kind = "ok"
    /\ FindSemester(responses[i].body, parsed.semester).found

TermTimetable(i) == FindSemester(responses[i].body, parsed.semester).timetable

\* numeric-tolerant equality of two class numbers
NumericTolerantEqual(a, b) ==
    a = b \/ (CanInt(a) /\ CanInt(b) /\ ToInt(a) = ToInt(b))

\* C1: once enrich_schedule_with_api_data has returned, the keys of the
\* schedule are exactly the module codes of the selection, in the selection's
\* insertion order, each mapped to a list, whatever each fetch produced; while
\* the loop runs the keys are the codes of the modules processed so far.
C1_ScheduleKeysAreSelection ==
    /\ EnrichReturned =>
          /\ DictKeys(enriched_schedule) = DictKeys(parsed.modules)
          /\ \A i \in 1..Len(enriched_schedule) :
                DOMAIN enriched_schedule[i].val = 1..Len(enriched_schedule[i].val)
    /\ pc = "enrich" =>
          DictKeys(enriched_schedule) = SubSeq(DictKeys(parsed.modules), 1, idx - 1)

\* enrich returned after one fetch failed, one module resolved to no lesson
\* and one module resolved to lessons
C1_Witness ==
    /\ EnrichReturned
    /\ \E i, j \in 1..Len(enriched_schedule) :
          /\ FetchFailed(i) /\ enriched_schedule[i].val = <<>>
          /\ responses[j].kind = "ok" /\ Len(enriched_schedule[j].val) > 0

\* C2: when the fetch of a module M fails, the loop does not stop: M's key
\* holds an empty list, every module after M is still fetched, and the list
\* of every other module is the one its own response determines.
C2_FailedFetchIsIsolated ==
    /\ \A i \in 1..Len(responses) :
          FetchFailed(i) =>
             /\ DictHas(enriched_schedule, parsed.modules[i].key)
             /\ DictGet(enriched_schedule, parsed.modules[i].key) = <<>>
             /\ \A j \in (1..Len(responses)) \ {i} :
                   /\ DictHas(enriched_schedule, parsed.modules[j].key)
                   /\ DictGet(enriched_schedule, parsed.modules[j].key) =
                         ModuleLessons(parsed.modules[j].val,
                                       fetch_module_data(responses[j]),
                                       parsed.semester)
    /\ EnrichReturned => Len(responses) = Len(parsed.modules)
    /\ pc = "enrich" => idx <= Len(parsed.modules) /\ Len(responses) = idx - 1

\* a failed fetch followed by a module that resolved to lessons
C2_Witness ==
    /\ EnrichReturned
    /\ \E i, j \in 1..Len(responses) :
          /\ i < j
          /\ FetchFailed(i)
          /\ Len(DictGet(enriched_schedule, parsed.modules[j].key)) > 0

\* number of lessons appended for the k-th class number of a lesson type
PairCount(module_code, url_lesson_type, k) ==
    Cardinality({n \in 1..Len(matched) :
                    /\ matched[n].module = module_code
                    /\ matched[n].lessonType = url_lesson_type
                    /\ matched[n].target = k})

\* the rows of a timetable a (lesson type, class number) pair selects
RowsOfPair(timetable, url_lesson_type, token) ==
    {r \in 1..Len(timetable) :
        /\ timetable[r].lessonType = ApiLessonType(url_lesson_type)
        /\ NumericTolerantEqual(CurrentClassNo(timetable[r]), token)}

\* C3: for every selected (lesson type, class number) pair of a resolved
\* module, the number of lessons appended for the pair is the number of rows
\* of the term's timetable with the expanded lesson type and a matching class
\* number, and the module's list holds exactly the appended lessons.
C3_EveryMatchingRowAppended ==
    \A i \in 1..Len(responses) :
        TermFound(i) =>
           /\ \A e \in 1..Len(parsed.modules[i].val) :
                 \A k \in 1..Len(parsed.modules[i].val[e].val) :
                    PairCount(parsed.modules[i].key, parsed.modules[i].val[e].key, k)
                      = Cardinality(RowsOfPair(TermTimetable(i),
                                               parsed.modules[i].val[e].key,
                                               parsed.modules[i].val[e].val[k]))
           /\ Len(DictGet(enriched_schedule, parsed.modules[i].key))
                 = Cardinality({n \in 1..Len(matched) :
                                   matched[n].module = parsed.modules[i].key})

\* a class that meets twice a week was selected and resolved to two lessons
C3_Witness ==
    \E i \in 1..Len(responses) :
        /\ TermFound(i)
        /\ \E e \in 1..Len(parsed.modules[i].val) :
              \E k \in 1..Len(parsed.modules[i].val[e].val) :
                 /\ PairCount(parsed.modules[i].key, parsed.modules[i].val[e].key, k) = 2
                 /\ Cardinality(RowsOfPair(TermTimetable(i),
                                           parsed.modules[i].val[e].key,
                                           parsed.modules[i].val[e].val[k])) = 2

AllDigits(t) == Len(t) > 0 /\ \A i \in 1..Len(t) : IsDigit(t[i])

\* a class number without its leading zeros
StripZeros(t) ==
    IF ~AllDigits(t) THEN t
    ELSE LET nz == {i \in 1..Len(t) : t[i] # "0"}
         IN  IF nz = {} THEN <<"0">> ELSE From(t, MinOf(nz))

\* a class number with one more leading zero
PadZero(t) == IF AllDigits(t) THEN <<"0">> \o t ELSE t

\* the lesson types of a module with every class number rewritten by f
RewriteClassNumbers(lesson_types, f(_)) ==
    [e \in 1..Len(lesson_types) |->
        [key |-> lesson_types[e].key,
         val |-> [k \in 1..Len(lesson_types[e].val) |-> f(lesson_types[e].val[k])]]]

\* C4: a row is appended for a selected class number iff its lesson type is
\* the expanded one and the two class numbers are equal strings or both
\* integers of equal value; so the lessons stored for a module are those the
\* same selection resolves to with leading zeros removed from, or added to,
\* its numeric class numbers.
C4_NumericTolerantMatching ==
    \A i \in 1..Len(responses) :
        TermFound(i) =>
           /\ \A e \in 1..Len(parsed.modules[i].val) :
                 \A k \in 1..Len(parsed.modules[i].val[e].val) :
                    \A r \in 1..Len(TermTimetable(i)) :
                       (\E n \in 1..Len(matched) :
                           /\ matched[n].module = parsed.modules[i].key
                           /\ matched[n].lessonType = parsed.modules[i].val[e].key
                           /\ matched[n].target = k
                           /\ matched[n].row = r)
                       <=> r \in RowsOfPair(TermTimetable(i),
                                            parsed.modules[i].val[e].key,
                                            parsed.modules[i].val[e].val[k])
           /\ DictGet(enriched_schedule, parsed.modules[i].key)
                 = ModuleLessons(RewriteClassNumbers(parsed.modules[i].val, StripZeros),
                                 responses[i].body, parsed.semester)
           /\ DictGet(enriched_schedule, parsed.modules[i].key)
                 = ModuleLessons(RewriteClassNumbers(parsed.modules[i].val, PadZero),
                                 responses[i].body, parsed.semester)

\* a zero-padded class number was selected and resolved to a row whose class
\* number is written differently
C4_Witness ==
    \E n \in 1..Len(matched) :
        \E i \in 1..Len(responses) :
            /\ TermFound(i)
            /\ matched[n].module = parsed.modules[i].key
            /\ StripZeros(matched[n].classNo) # matched[n].classNo
            /\ CurrentClassNo(TermTimetable(i)[matched[n].row]) # matched[n].classNo

\* the request's URL has been decoded (or decoding has failed)
Decoded == parsed # NotParsed

UrlHost == urlparse(url).netloc

UrlPath == urlparse(url).path

CatalogDomain == Chars("nusmods.com")

\* a path segment of the form sem-N, N one or more digits
IsTermSegment(seg) ==
    /\ Len(seg) >= 5
    /\ SubSeq(seg, 1, 4) = Chars("sem-")
    /\ AllDigits(From(seg, 5))

\* the N of a term segment sem-N
TermOf(seg) == DigitsVal(From(seg, 5))

\* the segments of a path between its slashes, at any position
AllSegments(path) == Split(path, "/")

\* the segments of a path without its leading and trailing slashes
PathSegments(path) == Split(StripSet(path, {"/"}), "/")

\* C5 as stated: a URL of the catalog domain whose path has a term segment
\* sem-N at any position decodes to semester N.
C5_TermSegmentAnywhere ==
    (Decoded /\ UrlHost = CatalogDomain) =>
        \A i \in 1..Len(AllSegments(UrlPath)) :
            IsTermSegment(AllSegments(UrlPath)[i]) =>
                parsed.ok /\ parsed.semester = TermOf(AllSegments(UrlPath)[i])

\* C5 (amended): a URL of the catalog domain whose path has the term segment
\* sem-N as its second segment, as in /timetable/sem-N/share, decodes to
\* semester N.
C5_TermFromSecondSegment ==
    (/\ Decoded
     /\ UrlHost = CatalogDomain
     /\ Len(PathSegments(UrlPath)) >= 2
     /\ IsTermSegment(PathSegments(UrlPath)[2]))
    => parsed.ok /\ parsed.semester = TermOf(PathSegments(UrlPath)[2])

\* a share URL /timetable/sem-2/share of the catalog domain was decoded
C5_Witness ==
    /\ Decoded
    /\ UrlHost = CatalogDomain
    /\ Len(PathSegments(UrlPath)) >= 2
    /\ PathSegments(UrlPath)[2] = Chars("sem-2")
    /\ parsed.ok
    /\ parsed.semester = 2

\* C6: a URL whose host is not the catalog domain is rejected with the
\* invalid-URL error, whatever else its host contains.
C6_ForeignHostRejected ==
    (Decoded /\ UrlHost # CatalogDomain) => ~parsed.ok

\* the lesson-type tokens of a module value as written: pieces between
\* commas that carry no ":" belong to the class-number list before them
RECURSIVE MergePieces(_, _)
MergePieces(pieces, acc) ==
    IF Len(pieces) = 0 THEN acc
    ELSE IF Contains(Head(pieces), <<":">>) \/ Len(acc) = 0
         THEN MergePieces(Tail(pieces), Append(acc, Head(pieces)))
         ELSE MergePieces(Tail(pieces),
                 [acc EXCEPT ![Len(acc)] = @ \o <<",">> \o Head(pieces)])

WrittenTokens(value) ==
    IF Contains(value, <<";">>)
    THEN Split(value, ";")
    ELSE MergePieces(Split(value, ","), <<>>)

\* the class numbers written in a token TYPE:(n,n,...) or TYPE:n
WrittenClassNumbers(token) ==
    ClassNumbers(Split(StripSet(Split1(token, ":")[2], {"(", ")"}), ","))

WrittenLessonType(token) == Strip(Upper(Split1(token, ":")[1]))

\* a appears in b, in order
RECURSIVE IsSubsequence(_, _)
IsSubsequence(a, b) ==
    IF Len(a) = 0 THEN TRUE
    ELSE IF Len(b) = 0 THEN FALSE
    ELSE IF Head(a) = Head(b) THEN IsSubsequence(Tail(a), Tail(b))
    ELSE IsSubsequence(a, Tail(b))

\* the name=value fields of the URL's query string
QueryItems == parse_qs(urlparse(url).query)

\* C7: every class number written inside a lesson-type token of a module
\* value appears in the decoded list of that lesson type, in written order,
\* whether the tokens are separated by ";" or by "," or the value is a
\* single token.
C7_WrittenClassNumbersDecoded ==
    (Decoded /\ parsed.ok) =>
        \A f \in 1..Len(QueryItems) :
            \A t \in 1..Len(WrittenTokens(QueryItems[f].val[1])) :
                LET token == WrittenTokens(QueryItems[f].val[1])[t]
                IN  (Contains(token, <<":">>) /\ Len(WrittenClassNumbers(token)) > 0) =>
                       /\ DictHas(parsed.modules, Upper(QueryItems[f].key))
                       /\ DictHas(DictGet(parsed.modules, Upper(QueryItems[f].key)),
                                  WrittenLessonType(token))
                       /\ IsSubsequence(
                             WrittenClassNumbers(token),
                             DictGet(DictGet(parsed.modules, Upper(QueryItems[f].key)),
                                     WrittenLessonType(token)))

\* C8: every decoded selection has non-empty upper-case module codes, a
\* non-empty lesson-type mapping per module and a non-empty list of non-empty
\* class numbers per lesson type.
C8_SelectionInvariant ==
    (Decoded /\ parsed.ok) =>
        \A m \in 1..Len(parsed.modules) :
            /\ Len(parsed.modules[m].key) > 0
            /\ Upper(parsed.modules[m].key) = parsed.modules[m].key
            /\ Len(parsed.modules[m].val) > 0
            /\ \A e \in 1..Len(parsed.modules[m].val) :
                  /\ Len(parsed.modules[m].val[e].val) > 0
                  /\ \A k \in 1..Len(parsed.modules[m].val[e].val) :
                        Len(parsed.modules[m].val[e].val[k]) > 0

\* C9: the term of every decoded selection is a positive integer.
C9_TermPositive ==
    (Decoded /\ parsed.ok) => parsed.semester > 0

NoLessonResolved ==
    /\ EnrichReturned
    /\ \A i \in 1..Len(enriched_schedule) : enriched_schedule[i].val = <<>>

\* C11: when every selected module resolves to zero lessons, the caller gets
\* a 'no schedule found' result, not a success response carrying an image.
C11_EmptyScheduleIsNotSuccess ==
    (pc = "done" /\ NoLessonResolved) =>
        ~(http_response.status = 200 /\ "image_base64" \in http_response.keys)

\* build_prompt has returned
PromptBuilt == pc = "call" /\ prompt # <<>>

DefaultStyle == Chars("minimalist")

\* C12: build_prompt called with a design style outside the style table
\* returns the prompt the default style (minimalist) produces for the same
\* theme, aspect ratio and schedule.
C12_UnknownStyleGivesDefaultPrompt ==
    (PromptBuilt /\ ~DictHas(STYLE_DESCRIPTIONS, design_style)) =>
        prompt = build_prompt(DefaultStyle, theme, CORE_ASPECT_RATIO, enriched_schedule)

\* the style named as '<Style> (<Theme> Mode)'
StyleModeName ==
    Capitalize(design_style) \o Chars(" (") \o Capitalize(theme) \o Chars(" Mode)")

\* C16: the prompt built for minimalist/light, the pair the pipeline check
\* uses, contains 'SAFE ZONES' and 'TOP 25%' and names the style as
\* 'Minimalist (Light Mode)'.
C16_PromptHasSafeZonesAndStyleMode ==
    (PromptBuilt /\ design_style = DefaultStyle /\ theme = Chars("light")) =>
        /\ Contains(prompt, Chars("SAFE ZONES"))
        /\ Contains(prompt, Chars("TOP 25%"))
        /\ Contains(prompt, StyleModeName)

\* format_schedule_data has returned the text of a non-empty schedule
Rendered == pc = "call" /\ schedule_data # <<>> /\ Len(enriched_schedule) > 0

ScheduleTextLines == Split(schedule_data, "\n")

DayHeader(d) == Chars("**") \o days_of_week[d] \o Chars(":**")

\* the recognized spellings of the seven days
DaySpellings ==
    << {Chars("Monday"), Chars("Mon"), Chars("M"), Chars("1")},
       {Chars("Tuesday"), Chars("Tue"), Chars("T"), Chars("2")},
       {Chars("Wednesday"), Chars("Wed"), Chars("W"), Chars("3")},
       {Chars("Thursday"), Chars("Thu"), Chars("Th"), Chars("4")},
       {Chars("Friday"), Chars("Fri"), Chars("F"), Chars("5")},
       {Chars("Saturday"), Chars("Sat"), Chars("S"), Chars("6")},
       {Chars("Sunday"), Chars("Sun"), Chars("U"), Chars("7")} >>

\* <<m, k>>: the k-th lesson of the m-th module of the schedule
LessonPairs ==
    UNION { {<<m, k>> : k \in 1..Len(enriched_schedule[m].val)} :
              m \in 1..Len(enriched_schedule) }

PairsOfDay(d) ==
    {p \in LessonPairs : enriched_schedule[p[1]].val[p[2]].day \in DaySpellings[d]}

\* p was appended to the schedule no later than q
AppendedBefore(p, q) == p[1] < q[1] \/ (p[1] = q[1] /\ p[2] <= q[2])

\* the n-th lesson of day d in append order
NthOfDay(d, n) ==
    CHOOSE p \in PairsOfDay(d) :
        Cardinality({q \in PairsOfDay(d) : AppendedBefore(q, p)}) = n

ExpectedLine(p) ==
    LessonLine(enriched_schedule[p[1]].key, enriched_schedule[p[1]].val[p[2]])

\* C18: in the text of format_schedule_data the day sections appear in week
\* order Monday..Sunday, and the lesson lines of a day keep the order in
\* which the lessons were appended (modules in insertion order, then list
\* order).
C18_DaysInWeekOrderLessonsInAppendOrder ==
    Rendered =>
        \E lines \in {ScheduleTextLines} :
            /\ \A i, j \in 1..Len(lines) : \A d, e \in 1..7 :
                  (i < j /\ lines[i] = DayHeader(d) /\ lines[j] = DayHeader(e)) => d < e
            /\ \A d \in 1..7 : \A i \in 1..Len(lines) :
                  lines[i] = DayHeader(d) =>
                      \A n \in 1..Cardinality(PairsOfDay(d)) :
                          /\ i + n <= Len(lines)
                          /\ lines[i + n] = ExpectedLine(NthOfDay(d, n))

\* a text with a Monday and a Wednesday section, Monday holding lessons of
\* two modules, whose first appended lesson is a Wednesday one
C18_Witness ==
    /\ Rendered
    /\ \E i, j \in 1..Len(ScheduleTextLines) :
          ScheduleTextLines[i] = DayHeader(1) /\ ScheduleTextLines[j] = DayHeader(3)
    /\ \E p, q \in PairsOfDay(1) : p[1] # q[1]
    /\ <<1, 1>> \in PairsOfDay(3)

IsLessonLine(line) == StartsWithAt(line, Chars("  - "), 1)

\* C19: rendering loses no lesson: the text has one line per lesson of the
\* schedule, under its canonical day when the day is recognized and in a
\* separate section when it is unrecognized or 'TBA'.
C19_NoLessonLost ==
    Rendered =>
        \E lines \in {ScheduleTextLines} :
            /\ Cardinality({i \in 1..Len(lines) : IsLessonLine(lines[i])})
                  = Cardinality(LessonPairs)
            /\ \A d \in 1..7 : PairsOfDay(d) # {} =>
                  \E i \in 1..Len(lines) :
                      /\ lines[i] = DayHeader(d)
                      /\ \A p \in PairsOfDay(d) :
                            \E n \in 1..Cardinality(PairsOfDay(d)) :
                                i + n <= Len(lines) /\ lines[i + n] = ExpectedLine(p)

\* the general, all-terms endpoint of a module
GeneralEndpoint(module_code) ==
    Chars("https://api.nusmods.com/v2/") \o academic_year \o Chars("/modules/")
    \o module_code \o Chars(".json")

\* C14: the catalog requests of one run of enrich_schedule_with_api_data
\* are exactly one GET per selected module, in selection order, each to the
\* general endpoint /{academicYear}/modules/{moduleCode}.json; none goes to a
\* term-scoped endpoint and none is repeated after a failure or timeout.
C14_OneGeneralRequestPerModule ==
    (Decoded /\ parsed.ok) =>
        /\ Len(requests) = Len(responses)
        /\ Len(requests) <= Len(parsed.modules)
        /\ EnrichReturned => Len(requests) = Len(parsed.modules)
        /\ \A i \in 1..Len(requests) :
              /\ requests[i] = GeneralEndpoint(parsed.modules[i].key)
              /\ ~Contains(requests[i], Chars("/semesters/"))

\* a run over two modules has returned, the first fetch having failed
C14_Witness ==
    /\ EnrichReturned
    /\ Len(parsed.modules) = 2
    /\ Len(requests) = 2
    /\ FetchFailed(1)
    /\ academic_year = Chars("2026-2027")

\* the positions in semesterData of the records of the requested term
TermRecords(i) ==
    IF responses[i].kind = "ok" /\ responses[i].body.hasSemesterData
    THEN {n \in 1..Len(responses[i].body.semesterData) :
             responses[i].body.semesterData[n].semester = parsed.semester}
    ELSE {}

\* the full lesson-type names the i-th module's selection expands to
SelectedLessonTypes(i) ==
    {ApiLessonType(parsed.modules[i].val[e].key) : e \in 1..Len(parsed.modules[i].val)}

\* C17: every lesson stored for a module is taken from a row of the timetable
\* of a record of the requested term, and the row's lesson type is the
\* expansion of a selected lesson-type code; without such a record, or
\* without semesterData, the module's list is empty.
C17_LessonsFromRequestedTerm ==
    (Decoded /\ parsed.ok) =>
        \A i \in 1..Len(enriched_schedule) :
            \E lessons \in {enriched_schedule[i].val} :
            \E recs \in {TermRecords(i)} :
                /\ recs = {} => lessons = <<>>
                /\ \A k \in 1..Len(lessons) :
                      \E n \in recs :
                      \E timetable \in {responses[i].body.semesterData[n].timetable} :
                      \E r \in 1..Len(timetable) :
                          /\ lessons[k] = EnrichedLesson(timetable[r])
                          /\ timetable[r].lessonType \in SelectedLessonTypes(i)

\* term 2 was requested from a catalog record that lists term 1 first, and
\* lessons were stored; another module's record has no row for the term
C17_Witness ==
    /\ EnrichReturned
    /\ parsed.semester = 2
    /\ \E i \in 1..Len(enriched_schedule) :
          /\ Len(enriched_schedule[i].val) > 0
          /\ responses[i].kind = "ok"
          /\ Len(responses[i].body.semesterData) = 2
          /\ responses[i].body.semesterData[1].semester = 1
    /\ \E i \in 1..Len(enriched_schedule) :
          /\ responses[i].kind = "ok"
          /\ TermRecords(i) = {}
          /\ enriched_schedule[i].val = <<>>

\* C20: within one module's resolved list no catalog timetable row appears
\* more than once, also when the class-number list repeats a token or holds
\* numerically equal tokens and when two lesson-type codes expand to the same
\* full name.
C20_NoRowResolvedTwice ==
    (Decoded /\ parsed.ok) =>
        \A a, b \in 1..Len(matched) :
            (a # b /\ matched[a].module = matched[b].module) =>
                matched[a].row # matched[b].row

\* the label 'Y-(Y+1)'
YearLabel(year) == Str(year) \o Chars("-") \o Str(year + 1)

\* the label the claim gives a date: 'Y-(Y+1)' in months 8..12 of year Y,
\* '(Y-1)-Y' in months 1..7
ExpectedAcademicYear(date) ==
    IF date.month \in 8..12 THEN YearLabel(date.year) ELSE YearLabel(date.year - 1)

\* C15: get_current_academic_year returns 'Y-(Y+1)' at every date of months
\* 8..12 of year Y and '(Y-1)-Y' at every date of months 1..7, and from one
\* day to the next the label changes exactly at the step from July to
\* August.
C15_AcademicYearCutoverInAugust ==
    [][ /\ (pc = "clock" /\ academic_year' # academic_year) =>
               academic_year' = ExpectedAcademicYear(now')
        /\ (pc = "clock" /\ now' # now) =>
               ((get_current_academic_year(now') # get_current_academic_year(now))
                   <=> (now.month = 7 /\ now'.month = 8)) ]_vars

\* the clock was read on the first of August after an earlier reading
C15_Witness ==
    /\ pc = "clock"
    /\ now.month = 8
    /\ now.day = 1
    /\ academic_year = YearLabel(now.year)

\* the first position of `sub` in the prompt, 0 when it does not occur
PromptPosition(sub) ==
    Bind({i \in 1..Len(prompt) : StartsWithAt(prompt, sub, i)}, LAMBDA hits :
        IF hits = {} THEN 0 ELSE MinOf(hits))

ApplyPrefix == Chars("   - Apply the ")

SpecificationsPrefix == Chars("STYLE SPECIFICATIONS:") \o Newline

\* the name of entry (s, t) of the style table, as build_prompt writes names
StyleEntryName(s, t) ==
    Capitalize(STYLE_DESCRIPTIONS[s].key) \o Chars(" ")
    \o Capitalize(STYLE_DESCRIPTIONS[s].val[t].key)

\* C21: in every prompt build_prompt returns, the style name in the 'Apply
\* the ... aesthetic' instruction and the description under STYLE
\* SPECIFICATIONS belong to one and the same (design style, theme) entry of
\* the style table, also when a fallback description was used.
C21_StyleNameDesignatesDescription ==
    PromptBuilt =>
        \E a \in {PromptPosition(ApplyPrefix)} :
        \E d \in {PromptPosition(SpecificationsPrefix)} :
            /\ a > 0
            /\ d > 0
            /\ \E s \in 1..Len(STYLE_DESCRIPTIONS) :
               \E t \in 1..Len(STYLE_DESCRIPTIONS[s].val) :
                  /\ StartsWithAt(prompt,
                                  StyleEntryName(s, t) \o Chars(" aesthetic described below"),
                                  a + Len(ApplyPrefix))
                  /\ StartsWithAt(prompt,
                                  STYLE_DESCRIPTIONS[s].val[t].val \o Newline
                                  \o Newline \o Chars("OUTPUT FORMAT:"),
                                  d + Len(SpecificationsPrefix))

\* the request itself is at fault: its body is not JSON, a field is missing
\* or invalid, the URL could not be decoded or holds no module
RequestAtFault ==
    \/ ~request.json
    \/ Len(url) = 0
    \/ Lower(GetOr(request.design_style, Chars("kawaii"))) \notin VALID_STYLES
    \/ Lower(GetOr(request.theme, Chars("light"))) \notin VALID_THEMES
    \/ (Decoded /\ ~parsed.ok)
    \/ (Decoded /\ parsed.ok /\ Len(parsed.modules) = 0)

\* decoding and resolution succeeded and the image-generation step failed
ImageGenerationFailed ==
    EnrichReturned /\ stylize.kind \notin {"running", "image"}

\* C22: generate_wallpaper answers 400 only when the request itself is at
\* fault, and any failure of the image-generation step, after decoding and
\* resolution succeeded, is answered with 500.
C22_ImageFailureIsInternalError ==
    (pc = "done" /\ request.method = "POST") =>
        /\ http_response.status = 400 => RequestAtFault
        /\ ImageGenerationFailed => http_response.status = 500

\* C23: stylize_timetable tries the models in the order of models_to_try,
\* the next one only after the previous one raised; a model that answers
\* without image data ends the attempts; the call returns the image of the
\* first model that produced one or raises ValueError, whose message says
\* 'All Imagen models failed' only if every model was tried and raised.
C23_ModelsTriedInOrderUntilAnswer ==
    /\ Len(attempts) <= Len(MODELS_TO_TRY)
    /\ \A k \in 1..Len(attempts) :
          /\ attempts[k].model = MODELS_TO_TRY[k]
          /\ k < Len(attempts) => attempts[k].outcome = "raise"
          /\ (attempts[k].outcome # "raise" /\ k = Len(attempts)) => stylize # Running
    /\ (Len(attempts) > 0 /\ stylize # Running) =>
          /\ stylize.kind \in {"image", "ValueError"}
          /\ stylize.kind = "image" <=> attempts[Len(attempts)].outcome = "image"
          /\ stylize.kind = "image" => stylize.model = attempts[Len(attempts)].model
          /\ Contains(Chars(stylize.message), Chars("All Imagen models failed")) =>
                /\ Len(attempts) = Len(MODELS_TO_TRY)
                /\ \A k \in 1..Len(attempts) : attempts[k].outcome = "raise"

====
